---- MODULE Spec2Model ----
(***************************************************************************)
(* State-machine model of asf-example's version bump tool                  *)
(* (src/src/asf/example/__init__.py): one invocation of run_using_args     *)
(* against a project directory, a git repository and the two target files. *)
(* Every statement that reads or writes the environment is one action;     *)
(* reached and raised record which statements ran and which file system    *)
(* calls raised, so that properties of a whole run are state predicates.   *)
(*                                                                         *)
(* Text is modelled as a sequence of one-character strings.  Characters    *)
(* that cannot be written as one ASCII character carry a name: "nl" is the *)
(* line feed, "q" the double quote, "u0661" ARABIC-INDIC DIGIT ONE (a      *)
(* character Python's \d and int() accept).                                *)
(***************************************************************************)
EXTENDS Integers, Sequences, FiniteSets, TLC

(***************************************************************************)
(* Bounds of the model.                                                    *)
(***************************************************************************)
\* largest number used for a version component of the committed manifest
MaxNum == 10
\* the constant-source files of the model have at most this many lines
MaxInitLines == 2
\* the texts of __init__.py under SpecLines have at most this many lines
MaxLines == 3
\* the invocations that follow one another under SpecHistory
MaxRuns == 3

(***************************************************************************)
(* Characters and numerals.                                                *)
(***************************************************************************)
AsciiDigits == <<"0", "1", "2", "3", "4", "5", "6", "7", "8", "9">>

\* the characters re's \d matches on str patterns: Unicode decimal digits
DigitChars == {AsciiDigits[i] : i \in 1..10} \cup {"u0661"}

\* int() of one decimal digit character
DigitVal(c) ==
    IF c = "u0661" THEN 1
    ELSE CHOOSE n \in 0..9 : AsciiDigits[n + 1] = c

\* int(text) for a text of decimal digits
RECURSIVE IntOf(_)
IntOf(s) ==
    IF s = <<>> THEN 0
    ELSE IntOf(SubSeq(s, 1, Len(s) - 1)) * 10 + DigitVal(s[Len(s)])

\* str(n) / f"{n}" for a non-negative int
RECURSIVE StrOfInt(_)
StrOfInt(n) ==
    IF n < 10 THEN <<AsciiDigits[n + 1]>>
    ELSE StrOfInt(n \div 10) \o <<AsciiDigits[(n % 10) + 1]>>

(***************************************************************************)
(* HeadVersion.                                                            *)
(***************************************************************************)
\* dev: int | None -- None is modelled as -1 (parse_version never yields a
\* negative number)
None == -1

HeadVersion(major, minor, patch, dev) ==
    [major |-> major, minor |-> minor, patch |-> patch, dev |-> dev]

\* HeadVersion.__str__, were it to test `if self.dev` where it tests
\* `self.dev is not None`: a dev number 0 is left out
HeadVersionStr_ZeroDevLeftOut(hv) ==
    IF hv.dev = None \/ hv.dev = 0
    THEN StrOfInt(hv.major) \o <<".">> \o StrOfInt(hv.minor) \o <<".">>
             \o StrOfInt(hv.patch)
    ELSE StrOfInt(hv.major) \o <<".">> \o StrOfInt(hv.minor) \o <<".">>
             \o StrOfInt(hv.patch) \o <<"-", "d", "e", "v">> \o StrOfInt(hv.dev)

\* HeadVersion.__str__
HeadVersionStr(hv) ==
    IF hv.dev = None
    THEN StrOfInt(hv.major) \o <<".">> \o StrOfInt(hv.minor) \o <<".">>
             \o StrOfInt(hv.patch)
    ELSE StrOfInt(hv.major) \o <<".">> \o StrOfInt(hv.minor) \o <<".">>
             \o StrOfInt(hv.patch) \o <<"-", "d", "e", "v">> \o StrOfInt(hv.dev)

ZERO_VERSION_SENTINEL == HeadVersion(0, 0, 0, None)

(***************************************************************************)
(* parse_version: re.fullmatch(r"(\d+)\.(\d+)\.(\d+)(?:-dev(\d+))?", v).   *)
(***************************************************************************)
\* the index after the longest run of \d characters of s that starts at i
RECURSIVE DigitsEnd(_, _)
DigitsEnd(s, i) ==
    IF i <= Len(s) /\ s[i] \in DigitChars THEN DigitsEnd(s, i + 1) ELSE i

\* s has the literal lit at index i
HasAt(s, i, lit) ==
    /\ i + Len(lit) - 1 <= Len(s)
    /\ \A k \in 1..Len(lit) : s[i + k - 1] = lit[k]

\* VersionMatch, were the pattern applied with re.match: the text may go on
\* after the match
VersionMatch_Match(s) ==
    LET e1 == DigitsEnd(s, 1)
        e2 == DigitsEnd(s, e1 + 1)
        e3 == DigitsEnd(s, e2 + 1)
        e4 == DigitsEnd(s, e3 + 4)
        three == /\ e1 > 1 /\ HasAt(s, e1, <<".">>)
                 /\ e2 > e1 + 1 /\ HasAt(s, e2, <<".">>)
                 /\ e3 > e2 + 1
        g1 == SubSeq(s, 1, e1 - 1)
        g2 == SubSeq(s, e1 + 1, e2 - 1)
        g3 == SubSeq(s, e2 + 1, e3 - 1)
    IN  IF three /\ HasAt(s, e3, <<"-", "d", "e", "v">>) /\ e4 > e3 + 4
        THEN [matched |-> TRUE, g1 |-> g1, g2 |-> g2, g3 |-> g3,
              hasdev |-> TRUE, g4 |-> SubSeq(s, e3 + 4, e4 - 1)]
        ELSE IF three
        THEN [matched |-> TRUE, g1 |-> g1, g2 |-> g2, g3 |-> g3,
              hasdev |-> FALSE, g4 |-> <<>>]
        ELSE [matched |-> FALSE, g1 |-> <<>>, g2 |-> <<>>, g3 |-> <<>>,
              hasdev |-> FALSE, g4 |-> <<>>]

\* The match object of the fullmatch, or matched = FALSE.  Every \d+ is
\* followed by a literal that is no digit or by the end of the text, so each
\* group is the longest run of digits at its place.
VersionMatch(s) ==
    LET e1 == DigitsEnd(s, 1)
        e2 == DigitsEnd(s, e1 + 1)
        e3 == DigitsEnd(s, e2 + 1)
        e4 == DigitsEnd(s, e3 + 4)
        three == /\ e1 > 1 /\ HasAt(s, e1, <<".">>)
                 /\ e2 > e1 + 1 /\ HasAt(s, e2, <<".">>)
                 /\ e3 > e2 + 1
        g1 == SubSeq(s, 1, e1 - 1)
        g2 == SubSeq(s, e1 + 1, e2 - 1)
        g3 == SubSeq(s, e2 + 1, e3 - 1)
    IN  IF three /\ e3 = Len(s) + 1
        THEN [matched |-> TRUE, g1 |-> g1, g2 |-> g2, g3 |-> g3,
              hasdev |-> FALSE, g4 |-> <<>>]
        ELSE IF /\ three
                /\ HasAt(s, e3, <<"-", "d", "e", "v">>)
                /\ e4 > e3 + 4
                /\ e4 = Len(s) + 1
        THEN [matched |-> TRUE, g1 |-> g1, g2 |-> g2, g3 |-> g3,
              hasdev |-> TRUE, g4 |-> SubSeq(s, e3 + 4, e4 - 1)]
        ELSE [matched |-> FALSE, g1 |-> <<>>, g2 |-> <<>>, g3 |-> <<>>,
              hasdev |-> FALSE, g4 |-> <<>>]

\* parse_version with a slip in the group numbers: minor is read from
\* group 3
parse_version_MinorFromPatch(version) ==
    LET m == VersionMatch(version)
    IN  IF ~m.matched
        THEN [ok |-> FALSE, v |-> ZERO_VERSION_SENTINEL]
        ELSE [ok |-> TRUE,
              v  |-> HeadVersion(IntOf(m.g1), IntOf(m.g3), IntOf(m.g3),
                                 IF m.hasdev THEN IntOf(m.g4) ELSE None)]

\* parse_version: ok = FALSE is report_error_and_exit("unsupported version
\* format: ...")
parse_version(version) ==
    LET m == VersionMatch(version)
    IN  IF ~m.matched
        THEN [ok |-> FALSE, v |-> ZERO_VERSION_SENTINEL]
        ELSE [ok |-> TRUE,
              v  |-> HeadVersion(IntOf(m.g1), IntOf(m.g2), IntOf(m.g3),
                                 IF m.hasdev THEN IntOf(m.g4) ELSE None)]

(***************************************************************************)
(* calculate_bumped_version's arithmetic: the bumped HeadVersion of the    *)
(* RELEASE and DEV cases.                                                  *)
(***************************************************************************)
\* the arithmetic with a RELEASE that advances the patch of a dev version too
BumpedVersion_ReleaseAlwaysAdvances(mode, head_version) ==
    IF mode = "release"
    THEN HeadVersion(head_version.major, head_version.minor,
                     head_version.patch + 1, None)
    ELSE IF head_version.dev = None
         THEN HeadVersion(head_version.major, head_version.minor,
                          head_version.patch + 1, 1)
         ELSE HeadVersion(head_version.major, head_version.minor,
                          head_version.patch, head_version.dev + 1)

\* the arithmetic, were DEV over a dev version to open the next patch
BumpedVersion_DevOpensNextPatch(mode, head_version) ==
    IF mode = "release"
    THEN IF head_version.dev # None
         THEN HeadVersion(head_version.major, head_version.minor,
                          head_version.patch, None)
         ELSE HeadVersion(head_version.major, head_version.minor,
                          head_version.patch + 1, None)
    ELSE HeadVersion(head_version.major, head_version.minor,
                     head_version.patch + 1, 1)

BumpedVersion(mode, head_version) ==
    IF mode = "release"
    THEN IF head_version.dev # None
         THEN HeadVersion(head_version.major, head_version.minor,
                          head_version.patch, None)
         ELSE HeadVersion(head_version.major, head_version.minor,
                          head_version.patch + 1, None)
    ELSE IF head_version.dev = None
         THEN HeadVersion(head_version.major, head_version.minor,
                          head_version.patch + 1, 1)
         ELSE HeadVersion(head_version.major, head_version.minor,
                          head_version.patch, head_version.dev + 1)

(***************************************************************************)
(* TOML documents as tomlkit presents them.  A document is a map from key  *)
(* paths to items; an item is absent (the container has no such key), a    *)
(* tomlkit.items.Table, another item with a mapping interface that is no   *)
(* tomlkit.items.Table ("inline": an InlineTable), a String or another     *)
(* scalar ("int").  The text of a file holding a document is modelled by   *)
(* the document it parses to (valid = FALSE: tomlkit.parse raises);        *)
(* tomlkit keeps comments and layout of what an edit does not replace.     *)
(***************************************************************************)
Item(k, s) == [k |-> k, s |-> s]
Absent     == Item("absent", <<>>)
TableItem  == Item("table", <<>>)
InlineItem == Item("inline", <<>>)
IntItem    == Item("int", <<>>)
StrItem(s) == Item("str", s)

Paths ==
    { <<"project">>, <<"project", "name">>, <<"project", "version">>,
      <<"tool">>, <<"tool", "ruff">>, <<"tool", "uv">>,
      <<"tool", "uv", "exclude-newer">>, <<"tool", "uv", "index">>,
      <<"build-system">> }

StrictPrefix(p, q) == Len(p) < Len(q) /\ SubSeq(q, 1, Len(p)) = p

\* container[key] = item at path p: the item replaces what the key held,
\* whatever was below it included
SetItem(doc, p, item) ==
    [q \in Paths |-> IF q = p THEN item
                     ELSE IF StrictPrefix(p, q) THEN Absent
                     ELSE doc[q]]

EmptyDoc == [q \in Paths |-> Absent]

\* the for loop of replace_key_in_section over section.split("."): cur is
\* the path of `current`, parts what is left of the split
RECURSIVE Descend(_, _, _)
Descend(doc, cur, parts) ==
    IF parts = <<>> THEN [ok |-> TRUE, doc |-> doc, cur |-> cur]
    ELSE LET p     == Append(cur, Head(parts))
             item  == doc[p]
             doc1  == IF item.k # "table" THEN SetItem(doc, p, TableItem)
                      ELSE doc
             item1 == doc1[p]
         IN  IF item1.k # "table"
             THEN [ok |-> FALSE, doc |-> doc1, cur |-> p]
             ELSE Descend(doc1, p, Tail(parts))

\* replace_key_in_section(text, section, key, value): status "ok" with the
\* new text, "raise" (tomlkit.parse raised) or "exit" (report_error_and_exit
\* "expected table, got ...": SystemExit)
replace_key_in_section(text, section, key, value) ==
    IF ~text.valid THEN [status |-> "raise", text |-> text]
    ELSE LET d == Descend(text.doc, <<>>, section)
         IN  IF ~d.ok THEN [status |-> "exit", text |-> text]
             ELSE [status |-> "ok",
                   text   |-> [valid |-> TRUE,
                               doc   |-> SetItem(d.doc, Append(d.cur, key),
                                                 StrItem(value))]]

(***************************************************************************)
(* The repository.  kind: "none" (discover_repository finds nothing),      *)
(* "bare" or "worktree".  head is what HEAD:pyproject.toml resolves to:    *)
(* "notfound" (revparse_single raises), "tree" (an object that is no Blob) *)
(* or "blob" with the text of the committed manifest.                      *)
(***************************************************************************)
\* data.get("project", {}).get(key) on a parsed document: "raise" is the
\* AttributeError of .get on an item that has no mapping interface
ProjectGet(doc, key) ==
    LET project == doc[<<"project">>]
    IN  IF project.k = "absent" THEN [status |-> "ok", item |-> Absent]
        ELSE IF project.k \in {"table", "inline"}
        THEN [status |-> "ok", item |-> doc[<<"project", key>>]]
        ELSE [status |-> "raise", item |-> Absent]

Outcome(status, msg, v) == [status |-> status, msg |-> msg, v |-> v]

\* read_head_version without the except clause around revparse_single: a
\* manifest that is not in HEAD ends the run
read_head_version_NotFoundRaises(repo) ==
    IF repo.kind = "bare"
    THEN Outcome("exit", "a working tree, not a bare git repository, is required",
                 ZERO_VERSION_SENTINEL)
    ELSE IF repo.head.k = "notfound"
    THEN Outcome("raise", "KeyError", ZERO_VERSION_SENTINEL)
    ELSE IF repo.head.k # "blob"
    THEN Outcome("exit", "pyproject.toml is in HEAD, but not a regular file",
                 ZERO_VERSION_SENTINEL)
    ELSE IF ~repo.head.text.valid
    THEN Outcome("raise", "tomlkit.parse", ZERO_VERSION_SENTINEL)
    ELSE LET got == ProjectGet(repo.head.text.doc, "version")
         IN  IF got.status = "raise"
             THEN Outcome("raise", "AttributeError", ZERO_VERSION_SENTINEL)
             ELSE IF got.item.k # "str"
             THEN Outcome("exit", "version missing in pyproject.toml in HEAD",
                          ZERO_VERSION_SENTINEL)
             ELSE LET parsed == parse_version(got.item.s)
                  IN  IF ~parsed.ok
                      THEN Outcome("exit", "unsupported version format",
                                   ZERO_VERSION_SENTINEL)
                      ELSE Outcome("ok", "", parsed.v)

\* read_head_version: status "ok" with the HeadVersion, "exit"
\* (report_error_and_exit(msg)) or "raise" (an exception nothing catches)
read_head_version(repo) ==
    IF repo.kind = "bare"
    THEN Outcome("exit", "a working tree, not a bare git repository, is required",
                 ZERO_VERSION_SENTINEL)
    ELSE IF repo.head.k = "notfound"
    THEN Outcome("ok", "", ZERO_VERSION_SENTINEL)
    ELSE IF repo.head.k # "blob"
    THEN Outcome("exit", "pyproject.toml is in HEAD, but not a regular file",
                 ZERO_VERSION_SENTINEL)
    ELSE IF ~repo.head.text.valid
    THEN Outcome("raise", "tomlkit.parse", ZERO_VERSION_SENTINEL)
    ELSE LET got == ProjectGet(repo.head.text.doc, "version")
         IN  IF got.status = "raise"
             THEN Outcome("raise", "AttributeError", ZERO_VERSION_SENTINEL)
             ELSE IF got.item.k # "str"
             THEN Outcome("exit", "version missing in pyproject.toml in HEAD",
                          ZERO_VERSION_SENTINEL)
             ELSE LET parsed == parse_version(got.item.s)
                  IN  IF ~parsed.ok
                      THEN Outcome("exit", "unsupported version format",
                                   ZERO_VERSION_SENTINEL)
                      ELSE Outcome("ok", "", parsed.v)

\* calculate_bumped_version, were SPECIFIC to go through read_head_version
\* as the other modes do
calculate_bumped_version_SpecificReadsHead(repository, mode, specific) ==
    LET r == read_head_version(repository)
    IN  [status |-> r.status, msg |-> r.msg, head |-> r.v,
         bumped |-> IF r.status # "ok" THEN <<>>
                    ELSE IF mode = "specific" THEN specific
                    ELSE HeadVersionStr(BumpedVersion(mode, r.v))]

\* calculate_bumped_version(repository, mode, specific): the pair
\* (head_version, bumped_version) in head and bumped when status is "ok"
calculate_bumped_version(repository, mode, specific) ==
    IF mode = "specific"
    THEN [status |-> "ok", msg |-> "", head |-> ZERO_VERSION_SENTINEL,
          bumped |-> specific]
    ELSE LET r == read_head_version(repository)
         IN  [status |-> r.status, msg |-> r.msg, head |-> r.v,
              bumped |-> IF r.status = "ok"
                         THEN HeadVersionStr(BumpedVersion(mode, r.v))
                         ELSE <<>>]

(***************************************************************************)
(* update_init_version's transform of the lines of __init__.py.            *)
(***************************************************************************)
WhiteSpace == {" ", "nl"}

\* the index after the longest run of \s characters of s that starts at i
RECURSIVE SpaceEnd(_, _)
SpaceEnd(s, i) ==
    IF i <= Len(s) /\ s[i] \in WhiteSpace THEN SpaceEnd(s, i + 1) ELSE i

\* re.fullmatch(version_pattern, line) with version_pattern
\* VERSION:\s*Final\[str\]\s*=\s*".*?"\s*\n?  ("VERSION:" and "Final[str]"
\* are one token each).  The lazy .*? takes no line feed, and what follows
\* the closing quote is white space to the end of the line.
ContainsVersion(line) ==
    LET a == SpaceEnd(line, 2)
        b == SpaceEnd(line, a + 1)
        o == SpaceEnd(line, b + 1)
    IN  /\ HasAt(line, 1, <<"VERSION:">>)
        /\ HasAt(line, a, <<"Final[str]">>)
        /\ HasAt(line, b, <<"=">>)
        /\ HasAt(line, o, <<"q">>)
        /\ \E c \in (o + 1)..Len(line) :
              /\ line[c] = "q"
              /\ \A i \in (o + 1)..(c - 1) : line[i] # "nl"
              /\ SpaceEnd(line, c + 1) = Len(line) + 1

\* f'VERSION: Final[str] = "{bumped_version}"\n'
VersionLine(bumped_version) ==
    <<"VERSION:", " ", "Final[str]", " ", "=", " ", "q">>
        \o bumped_version \o <<"q", "nl">>

\* `for line in src`: the lines of a text, each with its line feed
RECURSIVE SplitLines(_)
SplitLines(text) ==
    IF text = <<>> THEN <<>>
    ELSE IF \E i \in 1..Len(text) : text[i] = "nl"
    THEN LET e == CHOOSE i \in 1..Len(text) :
                      /\ text[i] = "nl"
                      /\ \A j \in 1..(i - 1) : text[j] # "nl"
         IN  <<SubSeq(text, 1, e)>> \o SplitLines(SubSeq(text, e + 1, Len(text)))
    ELSE <<text>>

\* WrittenLines without the loop's `replaced` flag: every matching line is
\* rewritten
RECURSIVE WrittenLines_EveryMatch(_, _, _, _)
WrittenLines_EveryMatch(lines, i, replaced, bumped_version) ==
    IF i > Len(lines) THEN <<>>
    ELSE IF ContainsVersion(lines[i])
    THEN <<VersionLine(bumped_version)>>
             \o WrittenLines_EveryMatch(lines, i + 1, TRUE, bumped_version)
    ELSE <<lines[i]>>
             \o WrittenLines_EveryMatch(lines, i + 1, replaced, bumped_version)

\* what the loop writes for the lines from index i on, replaced being the
\* loop's flag: a sequence of written lines
RECURSIVE WrittenLines(_, _, _, _)
WrittenLines(lines, i, replaced, bumped_version) ==
    IF i > Len(lines) THEN <<>>
    ELSE IF (~replaced) /\ ContainsVersion(lines[i])
    THEN <<VersionLine(bumped_version)>>
             \o WrittenLines(lines, i + 1, TRUE, bumped_version)
    ELSE <<lines[i]>> \o WrittenLines(lines, i + 1, replaced, bumped_version)

\* the text of the first n of a sequence of lines
RECURSIVE Concat(_, _)
Concat(lines, n) ==
    IF n = 0 THEN <<>> ELSE Concat(lines, n - 1) \o lines[n]

(***************************************************************************)
(* The environment of a run: the command line, the working directory, the  *)
(* installed package and the repository.                                   *)
(***************************************************************************)
PROJECT == <<"asf-example">>

OldVersion == <<"0", ".", "0", ".", "1">>
OldStamp   == <<"t0">>

\* datetime.now(UTC).strftime(...): the instants a run may see
Stamps == {<<"t1">>, <<"t2">>}

\* the payloads of --bump-specific
SpecificTexts == { <<"9", ".", "9", ".", "9">>, <<"n", "e", "x", "t">> }

\* the parsed command line: exactly one of the group's flags, or none
ArgSets ==
    {[mode |-> m, specific |-> <<>>] : m \in {"version", "release", "dev", "none"}}
        \cup {[mode |-> "specific", specific |-> v] : v \in SpecificTexts}

\* a manifest: project of kind pk holding name and version, tool of kind tk
\* holding ruff and uv, uv of kind uk holding exclude-newer and index
Manifest(pk, name, version, tk, uk) ==
    LET hasP  == pk \in {"table", "inline"}
        hasT  == tk \in {"table", "inline"}
        hasU  == hasT /\ uk \in {"table", "inline"}
    IN  [q \in Paths |->
            IF q = <<"project">> THEN Item(pk, <<>>)
            ELSE IF q = <<"project", "name">>
            THEN (IF hasP THEN StrItem(name) ELSE Absent)
            ELSE IF q = <<"project", "version">>
            THEN (IF hasP THEN version ELSE Absent)
            ELSE IF q = <<"tool">> THEN Item(tk, <<>>)
            ELSE IF q = <<"tool", "ruff">>
            THEN (IF hasT THEN Item(tk, <<>>) ELSE Absent)
            ELSE IF q = <<"tool", "uv">>
            THEN (IF hasT THEN Item(uk, <<>>) ELSE Absent)
            ELSE IF q = <<"tool", "uv", "exclude-newer">>
            THEN (IF hasU THEN StrItem(OldStamp) ELSE Absent)
            ELSE IF q = <<"tool", "uv", "index">>
            THEN (IF hasU THEN StrItem(<<"i">>) ELSE Absent)
            ELSE TableItem]

\* the kinds of tool and tool.uv: an inline table holds no [table]
ToolKinds ==
    { <<"absent", "absent">>, <<"int", "absent">>, <<"table", "absent">>,
      <<"table", "table">>, <<"table", "inline">>, <<"table", "int">>,
      <<"inline", "inline">> }

ProjectKinds ==
    { <<"absent", PROJECT>>, <<"int", PROJECT>>, <<"table", PROJECT>>,
      <<"table", <<"other">>>>, <<"inline", PROJECT>> }

\* pyproject.toml of the working directory
WorkFiles ==
    { [exists |-> TRUE,
       text   |-> [valid |-> TRUE,
                   doc   |-> Manifest(p[1], p[2], StrItem(OldVersion),
                                      t[1], t[2])]] :
          p \in ProjectKinds, t \in ToolKinds }
        \cup { [exists |-> TRUE,  text |-> [valid |-> FALSE, doc |-> EmptyDoc]],
               [exists |-> FALSE, text |-> [valid |-> FALSE, doc |-> EmptyDoc]] }

\* the version texts of committed manifests: what HeadVersion.__str__
\* renders, texts with leading zeros or other decimal digits, and texts
\* outside the grammar
HeadNums == {0, 9, MaxNum}

HeadTexts ==
    { HeadVersionStr(HeadVersion(1, MaxNum, p, d)) :
          p \in HeadNums, d \in {None, 1, 9} }
        \cup { <<"1", ".", "2", ".", "3">>,
               <<"1", ".", "2", ".", "3", "-", "d", "e", "v", "5">>,
               <<"0", "1", ".", "2", ".", "3">>,
               <<"1", ".", "2", ".", "3", "-", "d", "e", "v", "0", "5">>,
               <<"u0661", ".", "2", ".", "3">>,
               <<"1", ".", "2">>,
               <<"1", ".", "2", ".", "3", ".", "4">>,
               <<"v", "1", ".", "2", ".", "3">>,
               <<"1", ".", "2", ".", "3", "-", "d", "e", "v">>,
               <<"1", ".", "2", ".", "3", "nl">> }

HeadManifest(pk, version) ==
    [valid |-> TRUE, doc |-> Manifest(pk, PROJECT, version, "absent", "absent")]

HeadObjects ==
    { [k |-> "notfound", text |-> [valid |-> FALSE, doc |-> EmptyDoc]],
      [k |-> "tree",     text |-> [valid |-> FALSE, doc |-> EmptyDoc]],
      [k |-> "blob",     text |-> [valid |-> FALSE, doc |-> EmptyDoc]],
      [k |-> "blob",     text |-> HeadManifest("absent", Absent)],
      [k |-> "blob",     text |-> HeadManifest("int", Absent)],
      [k |-> "blob",     text |-> HeadManifest("table", Absent)],
      [k |-> "blob",     text |-> HeadManifest("table", IntItem)] }
        \cup { [k |-> "blob", text |-> HeadManifest("table", StrItem(v))] :
                   v \in HeadTexts }
        \cup { [k |-> "blob",
                text |-> HeadManifest("inline", StrItem(<<"1", ".", "2", ".", "3">>))] }

Repositories ==
    { [kind |-> "none", head |-> [k |-> "notfound",
                                  text |-> [valid |-> FALSE, doc |-> EmptyDoc]]] }
        \cup { [kind |-> "bare",
                head |-> [k |-> "blob",
                          text |-> HeadManifest("table", StrItem(OldVersion))]] }
        \cup { [kind |-> "worktree", head |-> h] : h \in HeadObjects }

\* lines of __init__.py: the constant's line, and the indented lookalike of
\* the tmp.write call, which the pattern does not match
ConstantLine == VersionLine(OldVersion)
OtherLine    == <<" ", " ">> \o VersionLine(<<"{", "}">>)

RECURSIVE LineSeqs(_)
LineSeqs(n) ==
    IF n = 0 THEN {<<>>}
    ELSE LET shorter == LineSeqs(n - 1)
         IN  shorter \cup { Append(ls, l) : ls \in shorter,
                                            l \in {ConstantLine, OtherLine} }

InitFiles == { Concat(ls, Len(ls)) : ls \in LineSeqs(MaxInitLines) }

(***************************************************************************)
(* The state of a run.                                                     *)
(***************************************************************************)
VARIABLES
    args,            \* the parsed command line
    pyproject,       \* pyproject.toml of the working directory
    initfile,        \* the text of __init__.py
    repo,            \* the repository discover_repository finds
    tmp_init,        \* the mkstemp file of update_init_version
    tmp_pyproject,   \* the mkstemp file of update_pyproject_version
    pc,              \* the statement the run is at
    head_version,    \* run_using_args' local
    bumped_version,  \* run_using_args' local
    now,             \* update_pyproject_version's local
    stdout,          \* the lines printed on standard output
    stderr,          \* the lines printed on standard error, trace lines left out
    exitcode,        \* the exit status of the process, -1 while it runs
    reached,         \* history: the statements the run has executed
    raised,          \* history: the file system calls that raised OSError
    initfile0,       \* history: the text of __init__.py when the run started
    pyproject0,      \* history: pyproject.toml when the run started
    history,         \* history: the successful runs before this one, in order
    tip,             \* history: the version text at HEAD when the run started
    committed,       \* the working tree was committed after this run's bump
    procs,           \* SpecConcurrent: the state of each concurrent invocation
    tmpfiles         \* SpecConcurrent: the temporary files of both directories

vars == <<args, pyproject, initfile, repo, tmp_init, tmp_pyproject, pc,
          head_version, bumped_version, now, stdout, stderr, exitcode,
          reached, raised, initfile0, pyproject0, history, tip, committed,
          procs, tmpfiles>>

files  == <<pyproject, initfile, tmp_init, tmp_pyproject>>
env    == <<args, repo, initfile0, pyproject0>>
locals == <<head_version, bumped_version, now>>
others == <<history, tip, committed, procs, tmpfiles>>

NoTmp == [exists |-> FALSE, text |-> <<>>]
NoTmpPy == [exists |-> FALSE, text |-> [valid |-> TRUE, doc |-> EmptyDoc]]

Line(kind, msg, prev, next) ==
    [kind |-> kind, msg |-> msg, prev |-> prev, next |-> next]

\* the version text of the manifest at HEAD, <<>> when HEAD holds none
TipText ==
    IF /\ repo.head.k = "blob"
       /\ repo.head.text.valid
       /\ repo.head.text.doc[<<"project", "version">>].k = "str"
    THEN repo.head.text.doc[<<"project", "version">>].s
    ELSE <<>>

Init ==
    /\ args \in ArgSets
    /\ pyproject \in WorkFiles
    /\ initfile \in InitFiles
    /\ repo \in Repositories
    /\ tmp_init = NoTmp
    /\ tmp_pyproject = NoTmpPy
    /\ pc = "start"
    /\ head_version = ZERO_VERSION_SENTINEL
    /\ bumped_version = <<>>
    /\ now = <<>>
    /\ stdout = <<>>
    /\ stderr = <<>>
    /\ exitcode = -1
    /\ reached = {}
    /\ raised = {}
    /\ initfile0 = initfile
    /\ pyproject0 = pyproject
    /\ history = <<>>
    /\ tip = TipText
    /\ committed = FALSE
    /\ procs = <<>>
    /\ tmpfiles = <<>>

\* the messages of the two except handlers ({exc} left out)
InitMessage == "failed to update VERSION constant in __init__.py"
PyprojectMessage ==
    "failed to update pyproject.toml; project may be in an inconsistent version state"

\* the statement at pc runs
Step(at) ==
    /\ pc = at
    /\ reached' = reached \cup {at}
    /\ UNCHANGED others

\* report_error_and_exit(message)
ReportErrorAndExit(message) ==
    /\ stderr' = Append(stderr, Line("error", message, <<>>, <<>>))
    /\ exitcode' = 2
    /\ pc' = "exited"

\* an exception no handler catches: the interpreter prints the traceback
\* and the process ends with status 1
Uncaught(what) ==
    /\ stderr' = Append(stderr, Line("traceback", what, <<>>, <<>>))
    /\ exitcode' = 1
    /\ pc' = "exited"

\* run_using_args, `if args.version`
ReportVersion ==
    /\ Step("start")
    /\ args.mode = "version"
    /\ stdout' = Append(stdout, Line("version", "VERSION", <<>>, <<>>))
    /\ exitcode' = 0
    /\ pc' = "exited"
    /\ UNCHANGED <<files, env, locals, stderr, raised>>

\* project_root_or_exit, were it called before `if args.version`
ProjectRootOrExit_BeforeVersion ==
    /\ Step("start")
    /\ IF ~pyproject.exists
       THEN ReportErrorAndExit("must run from project root with pyproject.toml")
       ELSE IF ~pyproject.text.valid
       THEN Uncaught("tomlkit.load")
       ELSE LET name == ProjectGet(pyproject.text.doc, "name")
            IN  IF name.status = "raise"
                THEN Uncaught("AttributeError")
                ELSE IF name.item # StrItem(PROJECT)
                THEN ReportErrorAndExit("pyproject.toml does not belong to")
                ELSE /\ pc' = "current_repository"
                     /\ UNCHANGED <<stderr, exitcode>>
    /\ UNCHANGED <<files, env, locals, stdout, raised>>

\* project_root_or_exit(current_path, PROJECT)
ProjectRootOrExit ==
    /\ Step("start")
    /\ args.mode # "version"
    /\ IF ~pyproject.exists
       THEN ReportErrorAndExit("must run from project root with pyproject.toml")
       ELSE IF ~pyproject.text.valid
       THEN Uncaught("tomlkit.load")
       ELSE LET name == ProjectGet(pyproject.text.doc, "name")
            IN  IF name.status = "raise"
                THEN Uncaught("AttributeError")
                ELSE IF name.item # StrItem(PROJECT)
                THEN ReportErrorAndExit("pyproject.toml does not belong to")
                ELSE /\ pc' = "current_repository"
                     /\ UNCHANGED <<stderr, exitcode>>
    /\ UNCHANGED <<files, env, locals, stdout, raised>>

\* current_repository(current_path)
CurrentRepository ==
    /\ Step("current_repository")
    /\ IF repo.kind = "none"
       THEN ReportErrorAndExit("not inside a git repository")
       ELSE /\ pc' = "bump_mode_from_args"
            /\ UNCHANGED <<stderr, exitcode>>
    /\ UNCHANGED <<files, env, locals, stdout, raised>>

\* bump_mode_from_args(args)
BumpModeFromArgs ==
    /\ Step("bump_mode_from_args")
    /\ IF args.mode \notin {"release", "dev", "specific"}
       THEN ReportErrorAndExit("--bump-dev, --bump-release, or --bump-specific is required")
       ELSE /\ pc' = "calculate_bumped_version"
            /\ UNCHANGED <<stderr, exitcode>>
    /\ UNCHANGED <<files, env, locals, stdout, raised>>

\* the statement, were read_head_version to read pyproject.toml of the
\* working directory where it reads HEAD:pyproject.toml
CalculateBumpedVersion_FromWorkingCopy ==
    /\ Step("calculate_bumped_version")
    /\ LET worktree == [kind |-> repo.kind,
                        head |-> [k |-> "blob", text |-> pyproject.text]]
           r == calculate_bumped_version(worktree, args.mode, args.specific)
       IN  IF r.status = "exit"
           THEN ReportErrorAndExit(r.msg) /\ UNCHANGED locals
           ELSE IF r.status = "raise"
           THEN Uncaught(r.msg) /\ UNCHANGED locals
           ELSE /\ head_version' = r.head
                /\ bumped_version' = r.bumped
                /\ pc' = "update_init_version"
                /\ UNCHANGED <<now, stderr, exitcode>>
    /\ UNCHANGED <<files, env, stdout, raised>>

\* head_version, bumped_version = calculate_bumped_version(...)
CalculateBumpedVersion ==
    /\ Step("calculate_bumped_version")
    /\ LET r == calculate_bumped_version(repo, args.mode, args.specific)
       IN  IF r.status = "exit"
           THEN ReportErrorAndExit(r.msg) /\ UNCHANGED locals
           ELSE IF r.status = "raise"
           THEN Uncaught(r.msg) /\ UNCHANGED locals
           ELSE /\ head_version' = r.head
                /\ bumped_version' = r.bumped
                /\ pc' = "update_init_version"
                /\ UNCHANGED <<now, stderr, exitcode>>
    /\ UNCHANGED <<files, env, stdout, raised>>

(***************************************************************************)
(* update_init_version(bumped_version).  The steps that touch the file     *)
(* system are taken one at a time, and each may fail (ok = FALSE: the call *)
(* raises OSError).                                                        *)
(***************************************************************************)
\* tempfile.mkstemp(prefix="__init__.", suffix=".tmp", dir=...), outside
\* the try statement
InitMkstemp ==
    /\ Step("update_init_version")
    /\ \E ok \in BOOLEAN :
          IF ok
          THEN /\ tmp_init' = [exists |-> TRUE, text |-> <<>>]
               /\ pc' = "init_with"
               /\ UNCHANGED <<stderr, exitcode, raised>>
          ELSE /\ Uncaught("mkstemp")
               /\ raised' = raised \cup {"init.mkstemp"}
               /\ UNCHANGED tmp_init
    /\ UNCHANGED <<pyproject, initfile, tmp_pyproject, env, locals, stdout>>

\* the with statement: the lines of __init__.py go to the temporary file.
\* n is the number of lines written before a call raises; all of them when
\* none does (a failure after the last line is one of flushing or closing).
InitTransform ==
    /\ Step("init_with")
    /\ LET lines   == SplitLines(initfile)
           written == WrittenLines(lines, 1, FALSE, bumped_version)
       IN  \E ok \in BOOLEAN, n \in 0..Len(lines) :
              /\ ok => n = Len(lines)
              /\ tmp_init' = [exists |-> TRUE, text |-> Concat(written, n)]
              /\ pc' = IF ok THEN "init_replace" ELSE "init_except"
              /\ raised' = IF ok THEN raised ELSE raised \cup {"init.with"}
    /\ UNCHANGED <<pyproject, initfile, tmp_pyproject, env, locals, stdout,
                   stderr, exitcode>>

\* os.replace(tmp_name, init_path)
InitReplace ==
    /\ Step("init_replace")
    /\ \E ok \in BOOLEAN :
          IF ok
          THEN /\ initfile' = tmp_init.text
               /\ tmp_init' = NoTmp
               /\ pc' = "update_pyproject_version"
               /\ UNCHANGED raised
          ELSE /\ pc' = "init_except"
               /\ raised' = raised \cup {"init.replace"}
               /\ UNCHANGED <<initfile, tmp_init>>
    /\ UNCHANGED <<pyproject, tmp_pyproject, env, locals, stdout, stderr,
                   exitcode>>

\* the handler without its os.remove call
InitExcept_KeepsTmp ==
    /\ Step("init_except")
    /\ ReportErrorAndExit(InitMessage)
    /\ UNCHANGED <<files, env, locals, stdout, raised>>

\* the handler, were it to print the message and return where it ends the
\* process
InitExcept_GoesOn ==
    /\ Step("init_except")
    /\ \E removed \in BOOLEAN :
          /\ tmp_init' = IF removed THEN NoTmp ELSE tmp_init
          /\ raised' = IF removed THEN raised ELSE raised \cup {"init.remove"}
    /\ stderr' = Append(stderr, Line("error", InitMessage, <<>>, <<>>))
    /\ pc' = "update_pyproject_version"
    /\ UNCHANGED <<pyproject, initfile, tmp_pyproject, env, locals, stdout,
                   exitcode>>

\* except Exception: os.remove(tmp_name), whose own failure is passed over,
\* then report_error_and_exit
InitExcept ==
    /\ Step("init_except")
    /\ \E removed \in BOOLEAN :
          /\ tmp_init' = IF removed THEN NoTmp ELSE tmp_init
          /\ raised' = IF removed THEN raised ELSE raised \cup {"init.remove"}
    /\ ReportErrorAndExit(InitMessage)
    /\ UNCHANGED <<pyproject, initfile, tmp_pyproject, env, locals, stdout>>

(***************************************************************************)
(* update_pyproject_version(bumped_version).                               *)
(***************************************************************************)
\* tempfile.mkstemp(prefix="pyproject.", suffix=".tmp", dir=...), outside
\* the try statement
PyprojectMkstemp ==
    /\ Step("update_pyproject_version")
    /\ \E ok \in BOOLEAN :
          IF ok
          THEN /\ tmp_pyproject' = [exists |-> TRUE,
                                    text |-> [valid |-> TRUE, doc |-> EmptyDoc]]
               /\ pc' = "pyproject_with"
               /\ UNCHANGED <<stderr, exitcode, raised>>
          ELSE /\ Uncaught("mkstemp")
               /\ raised' = raised \cup {"pyproject.mkstemp"}
               /\ UNCHANGED tmp_pyproject
    /\ UNCHANGED <<pyproject, initfile, tmp_init, env, locals, stdout>>

\* the edited text: both replace_key_in_section calls
EditedManifest(content, bumped, stamp) ==
    LET first == replace_key_in_section(content, <<"project">>, "version", bumped)
    IN  IF first.status # "ok" THEN first
        ELSE replace_key_in_section(first.text, <<"tool", "uv">>,
                                    "exclude-newer", stamp)

\* the with statement: read, edit, write.  io is the call that raises
\* OSError, if one does; a write that raises leaves a text cut short, which
\* is modelled as one that does not parse.  SystemExit is no Exception: the
\* handler does not run when replace_key_in_section exits.
PyprojectTransform ==
    /\ Step("pyproject_with")
    /\ \E stamp \in Stamps, io \in {"none", "open", "write"} :
          LET edit == EditedManifest(pyproject.text, bumped_version, stamp)
          IN  IF io = "open" \/ ~pyproject.exists
              THEN /\ pc' = "pyproject_except"
                   /\ raised' = raised \cup {"pyproject.open"}
                   /\ UNCHANGED <<tmp_pyproject, now, stderr, exitcode>>
              ELSE IF edit.status = "raise"
              THEN /\ now' = stamp
                   /\ pc' = "pyproject_except"
                   /\ UNCHANGED <<tmp_pyproject, stderr, exitcode, raised>>
              ELSE IF edit.status = "exit"
              THEN /\ now' = stamp
                   /\ ReportErrorAndExit("expected table, got")
                   /\ UNCHANGED <<tmp_pyproject, raised>>
              ELSE IF io = "write"
              THEN /\ now' = stamp
                   /\ tmp_pyproject' = [exists |-> TRUE,
                                        text |-> [valid |-> FALSE, doc |-> edit.text.doc]]
                   /\ pc' = "pyproject_except"
                   /\ raised' = raised \cup {"pyproject.write"}
                   /\ UNCHANGED <<stderr, exitcode>>
              ELSE /\ now' = stamp
                   /\ tmp_pyproject' = [exists |-> TRUE, text |-> edit.text]
                   /\ pc' = "pyproject_replace"
                   /\ UNCHANGED <<stderr, exitcode, raised>>
    /\ UNCHANGED <<pyproject, initfile, tmp_init, env, head_version,
                   bumped_version, stdout>>

\* os.replace(tmp_name, pyproject_path)
PyprojectReplace ==
    /\ Step("pyproject_replace")
    /\ \E ok \in BOOLEAN :
          IF ok
          THEN /\ pyproject' = [exists |-> TRUE, text |-> tmp_pyproject.text]
               /\ tmp_pyproject' = NoTmpPy
               /\ pc' = "report"
               /\ UNCHANGED raised
          ELSE /\ pc' = "pyproject_except"
               /\ raised' = raised \cup {"pyproject.replace"}
               /\ UNCHANGED <<pyproject, tmp_pyproject>>
    /\ UNCHANGED <<initfile, tmp_init, env, locals, stdout, stderr, exitcode>>

\* except Exception as exc: os.remove(tmp_name), whose own failure is
\* passed over, then report_error_and_exit
PyprojectExcept ==
    /\ Step("pyproject_except")
    /\ \E removed \in BOOLEAN :
          /\ tmp_pyproject' = IF removed THEN NoTmpPy ELSE tmp_pyproject
          /\ raised' = IF removed THEN raised
                       ELSE raised \cup {"pyproject.remove"}
    /\ ReportErrorAndExit(PyprojectMessage)
    /\ UNCHANGED <<pyproject, initfile, tmp_init, env, locals, stdout>>

\* print(f"{head_version} -> {bumped_version}"); return 0
ReportResult ==
    /\ Step("report")
    /\ stdout' = Append(stdout, Line("result", "->", HeadVersionStr(head_version),
                                     bumped_version))
    /\ exitcode' = 0
    /\ pc' = "exited"
    /\ UNCHANGED <<files, env, locals, stderr, raised>>

Next ==
    \/ ReportVersion
    \/ ProjectRootOrExit
    \/ CurrentRepository
    \/ BumpModeFromArgs
    \/ CalculateBumpedVersion
    \/ InitMkstemp
    \/ InitTransform
    \/ InitReplace
    \/ InitExcept
    \/ PyprojectMkstemp
    \/ PyprojectTransform
    \/ PyprojectReplace
    \/ PyprojectExcept
    \/ ReportResult

Spec == Init /\ [][Next]_vars

(***************************************************************************)
(* Vocabulary of the properties.                                           *)
(***************************************************************************)
(* SpecParse: runs of one project over committed manifests whose version   *)
(* text is any text one edit away from a text of the grammar.              *)
(***************************************************************************)
\* the state of the process when run_cli is entered
ProcessStart ==
    /\ tmp_init = NoTmp
    /\ tmp_pyproject = NoTmpPy
    /\ pc = "start"
    /\ head_version = ZERO_VERSION_SENTINEL
    /\ bumped_version = <<>>
    /\ now = <<>>
    /\ stdout = <<>>
    /\ stderr = <<>>
    /\ exitcode = -1
    /\ reached = {}
    /\ raised = {}
    /\ initfile0 = initfile
    /\ pyproject0 = pyproject

\* the first run of a history, no other invocation at the same time
RunStart ==
    /\ ProcessStart
    /\ history = <<>>
    /\ tip = TipText
    /\ committed = FALSE
    /\ procs = <<>>
    /\ tmpfiles = <<>>

\* pyproject.toml of this project with its [project] and [tool.uv] tables
ProjectFile ==
    [exists |-> TRUE,
     text   |-> [valid |-> TRUE,
                 doc   |-> Manifest("table", PROJECT, StrItem(OldVersion),
                                    "table", "table")]]

\* a working tree whose HEAD holds a manifest with this version text
Committed(version) ==
    [kind |-> "worktree",
     head |-> [k |-> "blob", text |-> HeadManifest("table", StrItem(version))]]

EditChars == {"0", "1", ".", "-", "v", " ", "nl", "x", "u0661"}

BaseTexts == { <<"1", ".", "2", ".", "3">>,
               <<"1", ".", "2", ".", "3", "-", "d", "e", "v", "5">> }

\* the texts one character away from t
EditsOf(t) ==
    { SubSeq(t, 1, i - 1) \o SubSeq(t, i + 1, Len(t)) : i \in 1..Len(t) }
        \cup { SubSeq(t, 1, i) \o <<c>> \o SubSeq(t, i + 1, Len(t)) :
                   i \in 0..Len(t), c \in EditChars }
        \cup { [t EXCEPT ![i] = c] : i \in 1..Len(t), c \in EditChars }

ParseTexts == HeadTexts \cup BaseTexts \cup UNION { EditsOf(t) : t \in BaseTexts }

InitParse ==
    /\ args \in {[mode |-> m, specific |-> <<>>] : m \in {"version", "release", "dev"}}
    /\ pyproject = ProjectFile
    /\ initfile = ConstantLine
    /\ repo \in { Committed(t) : t \in ParseTexts }
    /\ RunStart

SpecParse == InitParse /\ [][Next]_vars

(***************************************************************************)
(* SpecLines: SPECIFIC runs of one project over texts of __init__.py of up *)
(* to MaxLines lines, matching and not, the last one with or without its   *)
(* line feed, and payloads that hold a quote or a line feed.               *)
(***************************************************************************)
\* the constant's line without optional white space, one without its line
\* feed, a line of other text, and the constant's line with text after the
\* closing quote, which the pattern does not match
TightLine   == <<"VERSION:", "Final[str]", "=", "q", "0", "q", "nl">>
UnendedLine == <<"VERSION:", " ", "Final[str]", " ", "=", " ", "q", "0", "q">>
TextLine    == <<"x", "nl">>
TrailedLine == <<"VERSION:", " ", "Final[str]", " ", "=", " ", "q", "0", "q",
                 " ", "x", "nl">>

LineKinds ==
    {ConstantLine, OtherLine, TightLine, UnendedLine, TextLine, TrailedLine}

RECURSIVE LineTexts(_)
LineTexts(n) ==
    IF n = 0 THEN {<<>>}
    ELSE LET shorter == LineTexts(n - 1)
         IN  shorter \cup { t \o l : t \in shorter, l \in LineKinds }

\* payloads of --bump-specific: a version, one with a line feed, one with a
\* double quote
LinePayloads == { <<"9", ".", "9", ".", "9">>, <<"a", "nl", "b">>,
                  <<"a", "q", "b">> }

InitLines ==
    /\ args \in {[mode |-> "version", specific |-> <<>>]}
                    \cup {[mode |-> "specific", specific |-> v] : v \in LinePayloads}
    /\ pyproject = ProjectFile
    /\ initfile \in LineTexts(MaxLines)
    /\ repo = Committed(OldVersion)
    /\ RunStart

SpecLines == InitLines /\ [][Next]_vars

(***************************************************************************)
(* SpecHistory: up to MaxRuns invocations one after the other in one       *)
(* project, the working tree being committed or not after a successful     *)
(* bump.  A further invocation is followed after a successful bump only.   *)
(***************************************************************************)
\* what history keeps of the run that has ended
Entry ==
    [mode |-> args.mode, tip |-> tip, next |-> bumped_version,
     committed |-> committed]

\* payloads of --bump-specific: a version, and a text with a line feed
HistoryPayloads == { <<"9", ".", "9", ".", "9">>, <<"9", "nl", "9">> }

HistoryArgs ==
    {[mode |-> m, specific |-> <<>>] : m \in {"version", "release", "dev"}}
        \cup {[mode |-> "specific", specific |-> v] : v \in HistoryPayloads}

\* the user commits the working tree after a bump: HEAD:pyproject.toml is
\* pyproject.toml of the working directory
Commit ==
    /\ pc = "exited"
    /\ exitcode = 0
    /\ args.mode # "version"
    /\ ~committed
    /\ repo' = [repo EXCEPT !.head = [k |-> "blob", text |-> pyproject.text]]
    /\ committed' = TRUE
    /\ UNCHANGED <<args, pyproject, initfile, tmp_init, tmp_pyproject, pc,
                   head_version, bumped_version, now, stdout, stderr, exitcode,
                   reached, raised, initfile0, pyproject0, history, tip, procs,
                   tmpfiles>>

\* Python compiles the module, which is the file update_init_version
\* rewrites (init_path is __file__): each line of the texts of SpecHistory
\* has to be the assignment of one string literal, its payload free of
\* quotes and line feeds
Importable(text) ==
    \A i \in 1..Len(SplitLines(text)) :
        LET line == SplitLines(text)[i]
            quotes == {k \in 1..Len(line) : line[k] = "q"}
        IN  ContainsVersion(line) /\ Cardinality(quotes) = 2

\* the tool is invoked again: a new process starts in the same directory,
\* and ends with the traceback of a SyntaxError when the module does not
\* compile
InvokeAgain ==
    /\ pc = "exited"
    /\ exitcode = 0
    /\ args.mode # "version"
    /\ Len(history) + 1 < MaxRuns
    /\ history' = Append(history, Entry)
    /\ tip' = TipText
    /\ committed' = FALSE
    /\ args' \in HistoryArgs
    /\ IF Importable(initfile)
       THEN /\ pc' = "start"
            /\ stderr' = <<>>
            /\ exitcode' = -1
       ELSE /\ pc' = "exited"
            /\ stderr' = <<Line("traceback", "SyntaxError", <<>>, <<>>)>>
            /\ exitcode' = 1
    /\ head_version' = ZERO_VERSION_SENTINEL
    /\ bumped_version' = <<>>
    /\ now' = <<>>
    /\ stdout' = <<>>
    /\ reached' = {}
    /\ raised' = {}
    /\ initfile0' = initfile
    /\ pyproject0' = pyproject
    /\ UNCHANGED <<pyproject, initfile, repo, tmp_init, tmp_pyproject, procs,
                   tmpfiles>>

InitHistory ==
    /\ args \in HistoryArgs
    /\ pyproject = ProjectFile
    /\ initfile = ConstantLine
    /\ repo \in { Committed(<<"1", ".", "1", "0", ".", "9">>),
                  Committed(<<"1", ".", "2", ".", "3", "-", "d", "e", "v", "5">>) }
    /\ RunStart

NextHistory ==
    \/ Next
    \/ Commit
    \/ InvokeAgain

SpecHistory == InitHistory /\ [][NextHistory]_vars

(***************************************************************************)
(* SpecConcurrent: two invocations in one project at the same time, each   *)
(* having computed its bumped version from the same HEAD.  Their           *)
(* statements from update_init_version on interleave one file system call  *)
(* at a time; a process that opened a file reads what the file held then.  *)
(* The variables of the single run are not used.                           *)
(***************************************************************************)
Procs == {1, 2}

\* the names mkstemp may give a temporary file of one directory
TmpNames == {"tmp_a", "tmp_b"}

single == <<args, repo, tmp_init, tmp_pyproject, pc, head_version,
            bumped_version, now, stdout, stderr, exitcode, reached, raised,
            initfile0, pyproject0, history, tip, committed>>

\* the initial text of __init__.py: a line of other text and the constant
StartText == TextLine \o ConstantLine

\* a process that has come to update_init_version in a run of this mode
Invocation(mode) ==
    LET r == calculate_bumped_version(Committed(OldVersion), mode, <<>>)
    IN  [pc |-> "update_init_version", head_version |-> r.head,
         bumped_version |-> r.bumped, tmp_name |-> "none",
         stdout |-> <<>>, stderr |-> <<>>, exitcode |-> -1]

InitConcurrent ==
    /\ procs \in [Procs -> {Invocation(m) : m \in {"release", "dev"}}]
    /\ tmpfiles = [init |-> [n \in TmpNames |-> NoTmp],
                   work |-> [n \in TmpNames |-> NoTmpPy]]
    /\ pyproject = ProjectFile
    /\ initfile = StartText
    /\ args = [mode |-> "none", specific |-> <<>>]
    /\ repo = Committed(OldVersion)
    /\ ProcessStart
    /\ history = <<>>
    /\ tip = TipText
    /\ committed = FALSE

\* process p ends as report_error_and_exit(message) ends it
ConcErrorExit(p, message) ==
    [procs EXCEPT ![p].pc = "exited", ![p].exitcode = 2,
                  ![p].stderr = Append(@, Line("error", message, <<>>, <<>>))]

\* process p ends with an exception nothing catches
ConcUncaught(p, what) ==
    [procs EXCEPT ![p].pc = "exited", ![p].exitcode = 1,
                  ![p].stderr = Append(@, Line("traceback", what, <<>>, <<>>))]

\* the statement, were the temporary file of __init__.py to have one
\* fixed name, opened for writing
ConcInitMkstemp_FixedName(p) ==
    /\ procs[p].pc = "update_init_version"
    /\ \E ok \in BOOLEAN :
          IF ok
          THEN /\ tmpfiles' = [tmpfiles EXCEPT
                                   !.init["tmp_a"] = [exists |-> TRUE, text |-> <<>>]]
               /\ procs' = [procs EXCEPT ![p].pc = "init_with",
                                         ![p].tmp_name = "tmp_a"]
          ELSE /\ procs' = ConcUncaught(p, "mkstemp")
               /\ UNCHANGED tmpfiles
    /\ UNCHANGED <<initfile, pyproject, single>>

\* tempfile.mkstemp in the directory of __init__.py: a file that did not
\* exist is created
ConcInitMkstemp(p) ==
    /\ procs[p].pc = "update_init_version"
    /\ \E ok \in BOOLEAN :
          IF ok
          THEN \E n \in TmpNames :
                  /\ ~tmpfiles.init[n].exists
                  /\ tmpfiles' = [tmpfiles EXCEPT
                                      !.init[n] = [exists |-> TRUE, text |-> <<>>]]
                  /\ procs' = [procs EXCEPT ![p].pc = "init_with",
                                            ![p].tmp_name = n]
          ELSE /\ procs' = ConcUncaught(p, "mkstemp")
               /\ UNCHANGED tmpfiles
    /\ UNCHANGED <<initfile, pyproject, single>>

\* the with statement of update_init_version
ConcInitTransform(p) ==
    /\ procs[p].pc = "init_with"
    /\ LET lines   == SplitLines(initfile)
           written == WrittenLines(lines, 1, FALSE, procs[p].bumped_version)
       IN  \E ok \in BOOLEAN, n \in 0..Len(lines) :
              /\ ok => n = Len(lines)
              /\ tmpfiles' = [tmpfiles EXCEPT
                                  !.init[procs[p].tmp_name].text = Concat(written, n)]
              /\ procs' = [procs EXCEPT
                               ![p].pc = IF ok THEN "init_replace" ELSE "init_except"]
    /\ UNCHANGED <<initfile, pyproject, single>>

\* os.replace(tmp_name, init_path)
ConcInitReplace(p) ==
    /\ procs[p].pc = "init_replace"
    /\ \E ok \in BOOLEAN :
          IF ok
          THEN /\ initfile' = tmpfiles.init[procs[p].tmp_name].text
               /\ tmpfiles' = [tmpfiles EXCEPT !.init[procs[p].tmp_name] = NoTmp]
               /\ procs' = [procs EXCEPT ![p].pc = "update_pyproject_version"]
          ELSE /\ procs' = [procs EXCEPT ![p].pc = "init_except"]
               /\ UNCHANGED <<initfile, tmpfiles>>
    /\ UNCHANGED <<pyproject, single>>

\* the except handler of update_init_version
ConcInitExcept(p) ==
    /\ procs[p].pc = "init_except"
    /\ \E removed \in BOOLEAN :
          tmpfiles' = IF removed
                      THEN [tmpfiles EXCEPT !.init[procs[p].tmp_name] = NoTmp]
                      ELSE tmpfiles
    /\ procs' = ConcErrorExit(p, InitMessage)
    /\ UNCHANGED <<initfile, pyproject, single>>

\* tempfile.mkstemp in the working directory
ConcPyprojectMkstemp(p) ==
    /\ procs[p].pc = "update_pyproject_version"
    /\ \E ok \in BOOLEAN :
          IF ok
          THEN \E n \in TmpNames :
                  /\ ~tmpfiles.work[n].exists
                  /\ tmpfiles' = [tmpfiles EXCEPT
                                      !.work[n] = [exists |-> TRUE,
                                                   text |-> NoTmpPy.text]]
                  /\ procs' = [procs EXCEPT ![p].pc = "pyproject_with",
                                            ![p].tmp_name = n]
          ELSE /\ procs' = ConcUncaught(p, "mkstemp")
               /\ UNCHANGED tmpfiles
    /\ UNCHANGED <<initfile, pyproject, single>>

\* the with statement of update_pyproject_version
ConcPyprojectTransform(p) ==
    /\ procs[p].pc = "pyproject_with"
    /\ \E stamp \in Stamps, io \in {"none", "open", "write"} :
          LET edit == EditedManifest(pyproject.text, procs[p].bumped_version, stamp)
          IN  IF io = "open" \/ ~pyproject.exists \/ edit.status = "raise"
              THEN /\ procs' = [procs EXCEPT ![p].pc = "pyproject_except"]
                   /\ UNCHANGED tmpfiles
              ELSE IF edit.status = "exit"
              THEN /\ procs' = ConcErrorExit(p, "expected table, got")
                   /\ UNCHANGED tmpfiles
              ELSE IF io = "write"
              THEN /\ tmpfiles' = [tmpfiles EXCEPT
                                       !.work[procs[p].tmp_name].text =
                                           [valid |-> FALSE, doc |-> edit.text.doc]]
                   /\ procs' = [procs EXCEPT ![p].pc = "pyproject_except"]
              ELSE /\ tmpfiles' = [tmpfiles EXCEPT
                                       !.work[procs[p].tmp_name].text = edit.text]
                   /\ procs' = [procs EXCEPT ![p].pc = "pyproject_replace"]
    /\ UNCHANGED <<initfile, pyproject, single>>

\* os.replace(tmp_name, pyproject_path)
ConcPyprojectReplace(p) ==
    /\ procs[p].pc = "pyproject_replace"
    /\ \E ok \in BOOLEAN :
          IF ok
          THEN /\ pyproject' = [exists |-> TRUE,
                                text |-> tmpfiles.work[procs[p].tmp_name].text]
               /\ tmpfiles' = [tmpfiles EXCEPT !.work[procs[p].tmp_name] = NoTmpPy]
               /\ procs' = [procs EXCEPT ![p].pc = "report"]
          ELSE /\ procs' = [procs EXCEPT ![p].pc = "pyproject_except"]
               /\ UNCHANGED <<pyproject, tmpfiles>>
    /\ UNCHANGED <<initfile, single>>

\* the except handler of update_pyproject_version
ConcPyprojectExcept(p) ==
    /\ procs[p].pc = "pyproject_except"
    /\ \E removed \in BOOLEAN :
          tmpfiles' = IF removed
                      THEN [tmpfiles EXCEPT !.work[procs[p].tmp_name] = NoTmpPy]
                      ELSE tmpfiles
    /\ procs' = ConcErrorExit(p, PyprojectMessage)
    /\ UNCHANGED <<initfile, pyproject, single>>

\* print(f"{head_version} -> {bumped_version}"); return 0
ConcReportResult(p) ==
    /\ procs[p].pc = "report"
    /\ procs' = [procs EXCEPT
                     ![p].pc = "exited",
                     ![p].exitcode = 0,
                     ![p].stdout = Append(@, Line("result", "->",
                                                  HeadVersionStr(procs[p].head_version),
                                                  procs[p].bumped_version))]
    /\ UNCHANGED <<initfile, pyproject, tmpfiles, single>>

NextConcurrent ==
    \E p \in Procs :
        \/ ConcInitMkstemp(p)
        \/ ConcInitTransform(p)
        \/ ConcInitReplace(p)
        \/ ConcInitExcept(p)
        \/ ConcPyprojectMkstemp(p)
        \/ ConcPyprojectTransform(p)
        \/ ConcPyprojectReplace(p)
        \/ ConcPyprojectExcept(p)
        \/ ConcReportResult(p)

SpecConcurrent == InitConcurrent /\ [][NextConcurrent]_vars

(***************************************************************************)
Exited == pc = "exited"

LastError == stderr[Len(stderr)]

\* everything update_init_version writes for a text
InitOutput(text, bumped) ==
    LET written == WrittenLines(SplitLines(text), 1, FALSE, bumped)
    IN  Concat(written, Len(written))

\* an update ended in failure after its temporary file was created
InitUpdateFailed ==
    Exited /\ "init_with" \in reached /\ "update_pyproject_version" \notin reached

PyprojectUpdateFailed ==
    Exited /\ "pyproject_with" \in reached /\ exitcode # 0

\* calculate_bumped_version has returned in a RELEASE or DEV run
Computed ==
    /\ "calculate_bumped_version" \in reached
    /\ bumped_version # <<>>
    /\ args.mode \in {"release", "dev"}

\* the version text of the manifest committed at HEAD
HeadText == repo.head.text.doc[<<"project", "version">>].s

Dotted(a, b, c) == StrOfInt(a) \o <<".">> \o StrOfInt(b) \o <<".">> \o StrOfInt(c)

(***************************************************************************)
(* C1.  Original statement: when the update of a target file fails after   *)
(* its temporary file was created, the target holds what it held before    *)
(* the call and no temporary file of the update is left.                   *)
(***************************************************************************)
C1_Original ==
    /\ InitUpdateFailed => (initfile = initfile0 /\ ~tmp_init.exists)
    /\ PyprojectUpdateFailed => (pyproject = pyproject0 /\ ~tmp_pyproject.exists)

\* C1, amended: when the update of a target file fails after its temporary
\* file was created, the target holds what it held before the call, and a
\* temporary file of the update is left only if os.remove raised as well.
C1_FailedUpdateLeavesTarget ==
    /\ InitUpdateFailed =>
          /\ initfile = initfile0
          /\ tmp_init.exists => "init.remove" \in raised
    /\ PyprojectUpdateFailed =>
          /\ pyproject = pyproject0
          /\ tmp_pyproject.exists => "pyproject.remove" \in raised

\* C1 witness: the transform of __init__.py failed part way through a file
\* that holds the constant, and the temporary file was removed
C1_Witness ==
    /\ InitUpdateFailed
    /\ "init.with" \in raised
    /\ ~tmp_init.exists
    /\ InitOutput(initfile0, bumped_version) # initfile0

(***************************************************************************)
(* C2.  The statement: pyproject.toml is touched only after __init__.py    *)
(* was replaced; when update_init_version succeeded and                    *)
(* update_pyproject_version fails, the run ends with status 2 and the      *)
(* "inconsistent version state" message, __init__.py keeps the new text    *)
(* and pyproject.toml its old one.                                         *)
(***************************************************************************)
C2_Claim ==
    /\ (pyproject # pyproject0 \/ tmp_pyproject.exists) =>
          /\ "init_replace" \in reached
          /\ initfile = InitOutput(initfile0, bumped_version)
    /\ (Exited /\ "update_pyproject_version" \in reached /\ exitcode # 0) =>
          /\ exitcode = 2
          /\ LastError = Line("error", PyprojectMessage, <<>>, <<>>)
          /\ initfile = InitOutput(initfile0, bumped_version)
          /\ pyproject = pyproject0

(***************************************************************************)
(* C3.  For the head version (major, minor, patch, dev) read from history  *)
(* the bumped text is major.minor.patch (RELEASE, dev present),            *)
(* major.minor.(patch+1) (RELEASE, no dev), major.minor.(patch+1)-dev1     *)
(* (DEV, no dev), major.minor.patch-dev(dev+1) (DEV, dev present); read    *)
(* back, it has the same major and minor, and a dev number exactly in a    *)
(* DEV run.                                                                *)
(***************************************************************************)
C3_NextVersionText ==
    Computed =>
        LET h == head_version
            r == parse_version(bumped_version)
        IN  /\ bumped_version =
                  IF args.mode = "release" /\ h.dev # None
                  THEN Dotted(h.major, h.minor, h.patch)
                  ELSE IF args.mode = "release"
                  THEN Dotted(h.major, h.minor, h.patch + 1)
                  ELSE IF h.dev = None
                  THEN Dotted(h.major, h.minor, h.patch + 1)
                           \o <<"-", "d", "e", "v", "1">>
                  ELSE Dotted(h.major, h.minor, h.patch)
                           \o <<"-", "d", "e", "v">> \o StrOfInt(h.dev + 1)
            /\ r.ok
            /\ r.v.major = h.major /\ r.v.minor = h.minor
            /\ (args.mode = "release") <=> (r.v.dev = None)
            /\ (args.mode = "release") <=>
                   (\A k \in 1..Len(bumped_version) : bumped_version[k] # "-")

\* C3 witness: a DEV run from a release whose patch is 9, so that the
\* bumped patch gains a digit
C3_Witness ==
    /\ Computed
    /\ args.mode = "dev"
    /\ head_version = HeadVersion(1, MaxNum, 9, None)
    /\ bumped_version = StrOfInt(1) \o <<".">> \o StrOfInt(MaxNum)
                            \o <<".", "1", "0", "-", "d", "e", "v", "1">>

(***************************************************************************)
(* C4.  Original statement: for every version text v of the grammar, the   *)
(* rendered parse of v is v: the previous version a successful run prints  *)
(* is the committed text.                                                  *)
(***************************************************************************)
RenderedHead == stdout[Len(stdout)].prev

PrintedFromBlob ==
    /\ Exited /\ exitcode = 0
    /\ args.mode \in {"release", "dev"}
    /\ repo.head.k = "blob"

C4_Original == PrintedFromBlob => RenderedHead = HeadText

\* every number of v is written as str() writes it: ASCII digits, and no
\* zero before another digit at the start of a number
CanonicalText(v) ==
    \A i \in 1..Len(v) :
        /\ v[i] \in DigitChars => v[i] \in {AsciiDigits[k] : k \in 1..10}
        /\ (v[i] = "0" /\ (i = 1 \/ v[i - 1] \notin DigitChars)) =>
               (i = Len(v) \/ v[i + 1] \notin DigitChars)

\* C4, amended: for every version text v of the grammar whose numbers are
\* written in ASCII digits without leading zeros, the rendered parse of v
\* is v.
C4_RoundTripCanonical ==
    (PrintedFromBlob /\ CanonicalText(HeadText)) => RenderedHead = HeadText

\* C4 witness: a run printed the parse of 1.2.3-dev5
C4_Witness ==
    /\ PrintedFromBlob
    /\ HeadText = <<"1", ".", "2", ".", "3", "-", "d", "e", "v", "5">>
    /\ RenderedHead = HeadText

(***************************************************************************)
(* C5.  The statement: when project, tool or tool.uv of pyproject.toml is  *)
(* present and is no table, the edit fails (status 2) and nothing is       *)
(* written: the entry is never overwritten.                                *)
(***************************************************************************)
EditPath == { <<"project">>, <<"tool">>, <<"tool", "uv">> }

NonTableOnPath(doc) == \E p \in EditPath : doc[p].k \notin {"absent", "table"}

C5_Claim ==
    (pyproject0.text.valid /\ NonTableOnPath(pyproject0.text.doc)) =>
        /\ pyproject = pyproject0
        /\ pc \notin {"pyproject_replace", "report"}
        /\ (Exited /\ "pyproject_with" \in reached) => exitcode = 2

(***************************************************************************)
(* C6.  The statement: after a successful edit of any document,            *)
(* project.version is the bumped text, tool.uv.exclude-newer the run's     *)
(* timestamp, the tables on the way to them exist, and every key off those *)
(* paths holds what it held before.                                        *)
(***************************************************************************)
\* the edit succeeded: its output is in the temporary file, or already in
\* place
Edited == pc \in {"pyproject_replace", "report"}

EditOutput ==
    IF pc = "pyproject_replace" THEN tmp_pyproject.text.doc
    ELSE pyproject.text.doc

OffPath == Paths \ (EditPath \cup { <<"project", "version">>,
                                    <<"tool", "uv", "exclude-newer">> })

C6_Claim ==
    Edited =>
        /\ EditOutput[<<"project", "version">>] = StrItem(bumped_version)
        /\ EditOutput[<<"tool", "uv", "exclude-newer">>] = StrItem(now)
        /\ \A p \in EditPath : EditOutput[p].k \in {"table", "inline"}
        /\ \A q \in OffPath : EditOutput[q] = pyproject0.text.doc[q]

(***************************************************************************)
(* C7.  The statement: a run in RELEASE, DEV or SPECIFIC mode that found a *)
(* bare repository ends with status 2 and touches neither target file.     *)
(* It is stated for the runs in which no file system call raises.          *)
(***************************************************************************)
BareRun ==
    /\ repo.kind = "bare"
    /\ "current_repository" \in reached
    /\ args.mode \in {"release", "dev", "specific"}
    /\ raised = {}

C7_Claim ==
    BareRun =>
        /\ initfile = initfile0 /\ pyproject = pyproject0
        /\ ~tmp_init.exists /\ ~tmp_pyproject.exists
        /\ Exited => exitcode = 2

(***************************************************************************)
(* C8.  The statement: in a RELEASE or DEV run, when the manifest in HEAD  *)
(* is no regular file, or has no version field or one that is no text, or  *)
(* a version text outside the grammar, the run ends with a reported error  *)
(* and status 2 before any update step.                                    *)
(***************************************************************************)
CorruptHead ==
    /\ repo.kind = "worktree"
    /\ \/ repo.head.k = "tree"
       \/ /\ repo.head.k = "blob"
          /\ repo.head.text.valid
          /\ LET version == repo.head.text.doc[<<"project", "version">>]
             IN  version.k # "str" \/ ~VersionMatch(version.s).matched

C8_Claim ==
    (/\ CorruptHead
     /\ args.mode \in {"release", "dev"}
     /\ "calculate_bumped_version" \in reached) =>
        /\ Exited /\ exitcode = 2
        /\ LastError.kind = "error"
        /\ initfile = initfile0 /\ pyproject = pyproject0
        /\ ~tmp_init.exists /\ ~tmp_pyproject.exists

(***************************************************************************)
(* C9.  The statement: a failure of any step of the write protocol of      *)
(* either file (mkstemp, the transform, the write, the replace) ends the   *)
(* run with the one "error:" line of that file and status 2.               *)
(***************************************************************************)
InitFaults == {"init.mkstemp", "init.with", "init.replace"}
PyprojectFaults ==
    {"pyproject.mkstemp", "pyproject.open", "pyproject.write", "pyproject.replace"}

C9_Claim ==
    /\ (Exited /\ raised \cap InitFaults # {}) =>
          /\ exitcode = 2
          /\ stderr = <<Line("error", InitMessage, <<>>, <<>>)>>
    /\ (Exited /\ raised \cap PyprojectFaults # {}) =>
          /\ exitcode = 2
          /\ stderr = <<Line("error", PyprojectMessage, <<>>, <<>>)>>

(***************************************************************************)
(* C10.  When HEAD holds no pyproject.toml, read_head_version returns      *)
(* ZERO_VERSION_SENTINEL and no error: calculate_bumped_version returns,   *)
(* with 0.0.1 in a RELEASE run and 0.0.1-dev1 in a DEV run.                *)
(***************************************************************************)
NoHistoryRun ==
    /\ repo.kind = "worktree"
    /\ repo.head.k = "notfound"
    /\ args.mode \in {"release", "dev"}
    /\ "calculate_bumped_version" \in reached

C10_NoHistoryIsZeroVersion ==
    NoHistoryRun =>
        /\ head_version = [major |-> 0, minor |-> 0, patch |-> 0, dev |-> None]
        /\ args.mode = "release" => bumped_version = <<"0", ".", "0", ".", "1">>
        /\ args.mode = "dev" =>
               bumped_version = <<"0", ".", "0", ".", "1", "-", "d", "e", "v", "1">>
        /\ Exited => "update_init_version" \in reached

\* C10 witness: the first DEV run of a project ended with "0.0.0 -> 0.0.1-dev1"
C10_Witness ==
    /\ NoHistoryRun
    /\ args.mode = "dev"
    /\ Exited /\ exitcode = 0
    /\ stdout = <<Line("result", "->", <<"0", ".", "0", ".", "0">>,
                       <<"0", ".", "0", ".", "1", "-", "d", "e", "v", "1">>)>>

(***************************************************************************)
(* C11.  In a SPECIFIC run calculate_bumped_version returns the payload of *)
(* --bump-specific as it was given, inside or outside the grammar, for     *)
(* every HEAD; the head version it returns, and the one the result line    *)
(* shows, is 0.0.0; the manifest at HEAD is not read, so no state of HEAD  *)
(* ends the run there.                                                     *)
(***************************************************************************)
SpecificRun ==
    args.mode = "specific" /\ "calculate_bumped_version" \in reached

C11_SpecificVerbatim ==
    SpecificRun =>
        /\ bumped_version = args.specific
        /\ head_version = [major |-> 0, minor |-> 0, patch |-> 0, dev |-> None]
        /\ Exited => "update_init_version" \in reached
        /\ (Exited /\ exitcode = 0) =>
              stdout = <<Line("result", "->", <<"0", ".", "0", ".", "0">>,
                              args.specific)>>

\* C11 witness: a SPECIFIC run with a payload outside the grammar, over a
\* HEAD whose manifest holds no project table, ended with "0.0.0 -> next"
C11_Witness ==
    /\ SpecificRun
    /\ args.specific = <<"n", "e", "x", "t">>
    /\ repo.head = [k |-> "blob", text |-> HeadManifest("int", Absent)]
    /\ Exited /\ exitcode = 0
    /\ stdout = <<Line("result", "->", <<"0", ".", "0", ".", "0">>,
                       <<"n", "e", "x", "t">>)>>

(***************************************************************************)
(* C12.  parse_version accepts a text exactly when the whole text is       *)
(* digits "." digits "." digits, optionally followed by "-dev" digits; on  *)
(* every other text the run ends with "unsupported version format",        *)
(* status 2, and no version is returned.                                   *)
(***************************************************************************)
\* s[a..b] is a non-empty run of \d characters
DigitRun(s, a, b) == a <= b /\ \A k \in a..b : s[k] \in DigitChars

\* the grammar \d+\.\d+\.\d+(-dev\d+)? over the whole text
InGrammar(s) ==
    \E i, j \in 1..Len(s) :
        /\ i < j
        /\ s[i] = "." /\ s[j] = "."
        /\ DigitRun(s, 1, i - 1)
        /\ DigitRun(s, i + 1, j - 1)
        /\ \/ DigitRun(s, j + 1, Len(s))
           \/ \E k \in (j + 2)..Len(s) :
                  /\ DigitRun(s, j + 1, k - 1)
                  /\ k + 3 <= Len(s)
                  /\ SubSeq(s, k, k + 3) = <<"-", "d", "e", "v">>
                  /\ DigitRun(s, k + 4, Len(s))

\* read_head_version has handed the committed version text to parse_version
ParseRun ==
    /\ args.mode \in {"release", "dev"}
    /\ "calculate_bumped_version" \in reached
    /\ repo.kind = "worktree"
    /\ repo.head.k = "blob"
    /\ repo.head.text.valid
    /\ repo.head.text.doc[<<"project">>].k \in {"table", "inline"}
    /\ repo.head.text.doc[<<"project", "version">>].k = "str"

C12_AcceptsExactlyGrammar ==
    ParseRun =>
        IF InGrammar(HeadText)
        THEN /\ bumped_version # <<>>
             /\ Exited => "update_init_version" \in reached
        ELSE /\ Exited
             /\ exitcode = 2
             /\ stderr = <<Line("error", "unsupported version format", <<>>, <<>>)>>
             /\ stdout = <<>>
             /\ bumped_version = <<>>
             /\ "update_init_version" \notin reached
             /\ initfile = initfile0 /\ pyproject = pyproject0

\* C12 witness: the committed text "1.2.3" with a line feed after it was
\* refused
C12_Witness ==
    /\ ParseRun
    /\ HeadText = <<"1", ".", "2", ".", "3", "nl">>
    /\ Exited
    /\ exitcode = 2
    /\ stderr = <<Line("error", "unsupported version format", <<>>, <<>>)>>

(***************************************************************************)
(* C13.  What update_init_version writes for the lines of __init__.py: the *)
(* first line that matches version_pattern is replaced by the line         *)
(* VERSION: Final[str] = "{bumped_version}", every other line, later       *)
(* matching lines included, is written as it is and in its place; when no  *)
(* line matches the output is the input, and the update fails only when a  *)
(* file system call raises.                                                *)
(***************************************************************************)
\* the text of the lines a..b of a sequence of lines
LinesText(lines, a, b) ==
    LET part == SubSeq(lines, a, b) IN Concat(part, Len(part))

\* the text the statement describes for an input text: matching holds the
\* indexes of the lines that match version_pattern
FirstMatchReplaced(text, bumped) ==
    LET lines    == SplitLines(text)
        matching == {i \in 1..Len(lines) : ContainsVersion(lines[i])}
        first    == CHOOSE i \in matching : \A j \in matching : i <= j
    IN  IF matching = {} THEN text
        ELSE LinesText(lines, 1, first - 1) \o VersionLine(bumped)
                 \o LinesText(lines, first + 1, Len(lines))

C13_FirstMatchReplaced ==
    /\ pc = "init_replace" =>
          tmp_init.text = FirstMatchReplaced(initfile0, bumped_version)
    /\ "update_pyproject_version" \in reached \/ pc = "update_pyproject_version" =>
          initfile = FirstMatchReplaced(initfile0, bumped_version)
    /\ "init_except" \in reached =>
          raised \cap {"init.with", "init.replace"} # {}

\* C13 witness: of a line that does not match and two that do, the first
\* matching line alone was replaced, and the file put in place
C13_Witness ==
    /\ initfile0 = OtherLine \o ConstantLine \o TightLine
    /\ pc = "update_pyproject_version"
    /\ bumped_version = <<"9", ".", "9", ".", "9">>
    /\ initfile = OtherLine \o VersionLine(<<"9", ".", "9", ".", "9">>) \o TightLine

(***************************************************************************)
(* C14.  The version a RELEASE or DEV run computes depends on the manifest *)
(* at HEAD and not on the working directory: two runs in one mode over the *)
(* same HEAD compute the same bumped text, whatever the files of the       *)
(* working directory hold by then, so a bump repeated without a commit     *)
(* gives the same text again; and computing it changes no file.            *)
(***************************************************************************)
\* the runs that have computed their bumped version: those of history, and
\* the present one once calculate_bumped_version returned
ComputedRuns ==
    IF "calculate_bumped_version" \in reached /\ bumped_version # <<>>
    THEN Append(history, Entry)
    ELSE history

C14_DependsOnHeadOnly ==
    /\ \A i, j \in 1..Len(ComputedRuns) :
          (/\ ComputedRuns[i].mode \in {"release", "dev"}
           /\ ComputedRuns[i].mode = ComputedRuns[j].mode
           /\ ComputedRuns[i].tip = ComputedRuns[j].tip)
              => ComputedRuns[i].next = ComputedRuns[j].next
    /\ pc = "update_init_version" =>
          /\ initfile = initfile0
          /\ pyproject = pyproject0
          /\ ~tmp_init.exists /\ ~tmp_pyproject.exists

\* C14 witness: a DEV run repeated without a commit, pyproject.toml of the
\* working directory holding the first run's 1.10.10-dev1, computes
\* 1.10.10-dev1 again from the 1.10.9 at HEAD
C14_Witness ==
    /\ Len(history) = 1
    /\ history[1].mode = "dev" /\ ~history[1].committed
    /\ history[1].next = <<"1", ".", "1", "0", ".", "1", "0", "-", "d", "e", "v", "1">>
    /\ args.mode = "dev"
    /\ pc = "update_init_version"
    /\ tip = <<"1", ".", "1", "0", ".", "9">>
    /\ pyproject.text.doc[<<"project", "version">>] = StrItem(history[1].next)
    /\ bumped_version = history[1].next

(***************************************************************************)
(* C15.  A run with --version prints VERSION on standard output and ends   *)
(* with status 0, and does nothing else: no check of the project root, no  *)
(* repository, no head version, no temporary file, both files as they      *)
(* were, whatever the working directory and the repository are.            *)
(***************************************************************************)
C15_VersionOnly ==
    args.mode = "version" =>
        /\ pc \in {"start", "exited"}
        /\ reached \subseteq {"start"}
        /\ initfile = initfile0 /\ pyproject = pyproject0
        /\ ~tmp_init.exists /\ ~tmp_pyproject.exists
        /\ head_version = ZERO_VERSION_SENTINEL /\ bumped_version = <<>>
        /\ stderr = <<>>
        /\ Exited =>
              /\ exitcode = 0
              /\ stdout = <<Line("version", "VERSION", <<>>, <<>>)>>

\* C15 witness: --version outside a project root and outside a repository
\* printed the version and ended with status 0
C15_Witness ==
    /\ args.mode = "version"
    /\ ~pyproject.exists
    /\ repo.kind = "none"
    /\ Exited
    /\ exitcode = 0
    /\ stdout = <<Line("version", "VERSION", <<>>, <<>>)>>

(***************************************************************************)
(* C16.  For every HeadVersion x that parse_version returns, str(x) is     *)
(* rendered without failure and parse_version(str(x)) is x again: that     *)
(* holds of the rendering itself and of the text the result line prints.   *)
(***************************************************************************)
\* parse_version has returned the head version of the run
Parsed == ParseRun /\ bumped_version # <<>>

C16_ParseRenderParse ==
    Parsed =>
        /\ head_version = parse_version(HeadText).v
        /\ parse_version(HeadVersionStr(head_version)) =
               [ok |-> TRUE, v |-> head_version]
        /\ (Exited /\ exitcode = 0) =>
               parse_version(stdout[1].prev) = [ok |-> TRUE, v |-> head_version]

\* C16 witness: the run over the committed "01.2.3" printed "1.2.3", which
\* parses to the version that "01.2.3" parsed to
C16_Witness ==
    /\ Parsed
    /\ HeadText = <<"0", "1", ".", "2", ".", "3">>
    /\ Exited /\ exitcode = 0
    /\ stdout[1].prev = <<"1", ".", "2", ".", "3">>
    /\ head_version = [major |-> 1, minor |-> 2, patch |-> 3, dev |-> None]

(***************************************************************************)
(* C17.  Every error ends the run and nothing is tried again: after the    *)
(* one line on standard error the process has ended with status 1 or 2 and *)
(* printed nothing else; no statement runs twice and none runs after the   *)
(* exit; when update_init_version fails, update_pyproject_version is not   *)
(* entered, pyproject.toml is as it was and has no temporary file; the     *)
(* result line and status 0 come only after both files were replaced.      *)
(***************************************************************************)
PyprojectSteps ==
    {"update_pyproject_version", "pyproject_with", "pyproject_replace",
     "pyproject_except", "report"}

ErrorsAreTerminal ==
    /\ stderr # <<>> =>
          /\ Exited
          /\ exitcode \in {1, 2}
          /\ Len(stderr) = 1
          /\ stdout = <<>>
    /\ (Exited /\ exitcode # 0) => (stderr # <<>> /\ "report" \notin reached)
    /\ (pc = "init_except" \/ "init_except" \in reached
            \/ "init.mkstemp" \in raised) =>
          /\ pc \in {"init_except", "exited"}
          /\ reached \cap PyprojectSteps = {}
          /\ pyproject = pyproject0
          /\ ~tmp_pyproject.exists
    /\ (pc = "pyproject_except" \/ "pyproject_except" \in reached
            \/ "pyproject.mkstemp" \in raised) =>
          /\ pc \in {"pyproject_except", "exited"}
          /\ "report" \notin reached
          /\ stdout = <<>>
    /\ (args.mode # "version" /\ (stdout # <<>> \/ (Exited /\ exitcode = 0))) =>
          /\ Exited
          /\ exitcode = 0
          /\ stdout = <<Line("result", "->", HeadVersionStr(head_version),
                             bumped_version)>>
          /\ {"init_replace", "pyproject_replace"} \subseteq reached
          /\ raised = {}
          /\ initfile = InitOutput(initfile0, bumped_version)
          /\ pyproject.text = EditedManifest(pyproject0.text, bumped_version, now).text
          /\ ~tmp_init.exists /\ ~tmp_pyproject.exists

C17_ErrorsAreTerminal ==
    /\ []ErrorsAreTerminal
    /\ [][pc # "exited" /\ pc \notin reached]_vars

\* C17 witness: os.replace of __init__.py raised; the run ended with the
\* error line and status 2, update_pyproject_version not entered
C17_Witness ==
    /\ "init.replace" \in raised
    /\ Exited
    /\ exitcode = 2
    /\ stderr = <<Line("error", InitMessage, <<>>, <<>>)>>
    /\ reached \cap PyprojectSteps = {}
    /\ pyproject = pyproject0

(***************************************************************************)
(* C18.  The statement: from a project whose __init__.py has exactly one   *)
(* line matching version_pattern, after every successful run of a          *)
(* sequence of runs in any modes, SPECIFIC with any payload included, the  *)
(* string of the constant's line and project.version of pyproject.toml     *)
(* both are the bumped version of that run, and __init__.py still has      *)
(* exactly one matching line.                                              *)
(***************************************************************************)
\* a bump has ended with the result line
BumpDone == Exited /\ exitcode = 0 /\ args.mode # "version"

\* the text between the first and the last double quote of a line
ConstantOf(line) ==
    LET quotes == {k \in 1..Len(line) : line[k] = "q"}
        first  == CHOOSE k \in quotes : \A j \in quotes : k <= j
        last   == CHOOSE k \in quotes : \A j \in quotes : j <= k
    IN  IF quotes = {} THEN <<>> ELSE SubSeq(line, first + 1, last - 1)

C18_Claim ==
    BumpDone =>
        LET lines    == SplitLines(initfile)
            matching == {i \in 1..Len(lines) : ContainsVersion(lines[i])}
        IN  /\ Cardinality(matching) = 1
            /\ \A i \in matching : ConstantOf(lines[i]) = bumped_version
            /\ pyproject.text.doc[<<"project", "version">>] = StrItem(bumped_version)

(***************************************************************************)
(* C19.  With every bump committed before the next run: from a release     *)
(* version X.Y.Z at HEAD, the i-th of consecutive DEV runs gives           *)
(* X.Y.(Z+1)-dev{i}, a RELEASE run after them gives X.Y.(Z+1), which is    *)
(* what one RELEASE run over X.Y.Z gives; and every text a RELEASE or DEV  *)
(* run gives is of the grammar and accepted by parse_version.              *)
(***************************************************************************)
\* the successful bumps so far, in order
Runs == IF BumpDone THEN Append(history, Entry) ELSE history

DevSuffix(i) == <<"-", "d", "e", "v">> \o StrOfInt(i)

C19_DevThenRelease ==
    /\ \A a \in 1..Len(Runs) :
          LET base == parse_version(Runs[a].tip)
              target == Dotted(base.v.major, base.v.minor, base.v.patch + 1)
          IN  (base.ok /\ base.v.dev = None) =>
                  /\ Runs[a].mode = "release" => Runs[a].next = target
                  /\ \A b \in a..Len(Runs) :
                        (\A c \in a..b : /\ Runs[c].mode = "dev"
                                         /\ c < b => Runs[c].committed) =>
                            /\ Runs[b].next = target \o DevSuffix(b - a + 1)
                            /\ (/\ b < Len(Runs)
                                /\ Runs[b].committed
                                /\ Runs[b + 1].mode = "release") =>
                                   Runs[b + 1].next = target
    /\ \A i \in 1..Len(Runs) :
          Runs[i].mode \in {"release", "dev"} =>
              /\ InGrammar(Runs[i].next)
              /\ parse_version(Runs[i].next).ok

\* C19 witness: from 1.10.9 at HEAD, two committed DEV runs gave
\* 1.10.10-dev1 and 1.10.10-dev2, and the RELEASE run after them 1.10.10
C19_Witness ==
    /\ Len(history) = 2
    /\ history[1] = [mode |-> "dev", tip |-> <<"1", ".", "1", "0", ".", "9">>,
                     next |-> <<"1", ".", "1", "0", ".", "1", "0">> \o DevSuffix(1),
                     committed |-> TRUE]
    /\ history[2] = [mode |-> "dev", tip |-> history[1].next,
                     next |-> <<"1", ".", "1", "0", ".", "1", "0">> \o DevSuffix(2),
                     committed |-> TRUE]
    /\ BumpDone
    /\ args.mode = "release"
    /\ tip = history[2].next
    /\ bumped_version = <<"1", ".", "1", "0", ".", "1", "0">>
    /\ stdout = <<Line("result", "->", history[2].next, bumped_version)>>

(***************************************************************************)
(* C20.  Two invocations at the same time, interleaved call by call: each  *)
(* of __init__.py and pyproject.toml always holds what it held before or   *)
(* the whole output of one invocation, never part of one; the two never    *)
(* hold the same temporary file; and when both have ended with status 0,   *)
(* each file holds the whole output of one of them and no temporary file   *)
(* is left.                                                                *)
(***************************************************************************)
\* the whole outputs of the invocations for an input text of __init__.py
WholeInit(text) ==
    { FirstMatchReplaced(text, procs[p].bumped_version) : p \in Procs }

\* the whole outputs of the invocations for an input text of pyproject.toml
WholePyproject(text) ==
    { [valid |-> TRUE,
       doc   |-> [text.doc EXCEPT
                      ![<<"project", "version">>] = StrItem(procs[p].bumped_version),
                      ![<<"tool", "uv", "exclude-newer">>] = StrItem(stamp)]] :
          p \in Procs, stamp \in Stamps }

\* an invocation reads the initial content or the output of the other one
OutputsInit ==
    WholeInit(initfile0) \cup UNION { WholeInit(t) : t \in WholeInit(initfile0) }

OutputsPyproject ==
    WholePyproject(pyproject0.text)
        \cup UNION { WholePyproject(t) : t \in WholePyproject(pyproject0.text) }

HoldsInitTmp(p) == procs[p].pc \in {"init_with", "init_replace", "init_except"}

HoldsPyprojectTmp(p) ==
    procs[p].pc \in {"pyproject_with", "pyproject_replace", "pyproject_except"}

BothDone == \A p \in Procs : procs[p].pc = "exited" /\ procs[p].exitcode = 0

C20_WholeOrUntouched ==
    /\ initfile \in {initfile0} \cup OutputsInit
    /\ pyproject.exists
    /\ pyproject.text \in {pyproject0.text} \cup OutputsPyproject
    /\ \A p, q \in Procs :
          /\ (p # q /\ HoldsInitTmp(p) /\ HoldsInitTmp(q)) =>
                 procs[p].tmp_name # procs[q].tmp_name
          /\ (p # q /\ HoldsPyprojectTmp(p) /\ HoldsPyprojectTmp(q)) =>
                 procs[p].tmp_name # procs[q].tmp_name
          /\ HoldsInitTmp(p) => tmpfiles.init[procs[p].tmp_name].exists
          /\ HoldsPyprojectTmp(p) => tmpfiles.work[procs[p].tmp_name].exists
    /\ BothDone =>
          /\ initfile \in OutputsInit
          /\ pyproject.text \in OutputsPyproject
          /\ \A n \in TmpNames :
                ~tmpfiles.init[n].exists /\ ~tmpfiles.work[n].exists

\* C20 witness: both invocations ended with status 0, __init__.py holding
\* the whole output of the RELEASE one and pyproject.toml that of the DEV
\* one
C20_Witness ==
    /\ BothDone
    /\ procs[1].bumped_version = <<"0", ".", "0", ".", "2">>
    /\ procs[2].bumped_version = <<"0", ".", "0", ".", "2", "-", "d", "e", "v", "1">>
    /\ initfile = TextLine \o VersionLine(procs[1].bumped_version)
    /\ pyproject.text.doc[<<"project", "version">>] = StrItem(procs[2].bumped_version)

====
